---- MODULE Spec2Model ----
(***************************************************************************)
(* poptrackerlib: the location data model (Map, MapLocation, Area,         *)
(* Location, Section), its __json__ projections, the JSON text produced by *)
(* poptrackerlib.common.dumps and the importer import_locations_from_file. *)
(*                                                                         *)
(* Python values are tagged tuples, so that values of different Python     *)
(* types are never confused:                                               *)
(*   <<"None">>  <<"bool", b>>  <<"int", n>>  <<"float", n, d>> (n/d, d a  *)
(*   power of two, lowest terms)  <<"str", s>>  <<"list", seq>>            *)
(*   <<"tuple", seq>>  <<"dict", pairs>> (pairs in insertion order, each   *)
(*   <<key, value>>)   <<"obj", record>> (an instance; record.cls names    *)
(*   its class).                                                           *)
(* JSON text is a sequence of lexemes: <<"p", c>> is the single character  *)
(* c (punctuation, blank, newline, slash), <<"s", s>> a string literal,    *)
(* <<"i", n>> an integer literal, <<"f", n, d>> a float literal and        *)
(* <<"k", w>> one of the words true, false, null.                          *)
(***************************************************************************)
EXTENDS Integers, Sequences, FiniteSets, TLC

VARIABLES pc, forest, emitted, file, edits, ret, out, args, obj, json

vars == <<pc, forest, emitted, file, edits, ret, out, args, obj, json>>

----------------------------------------------------------------------------
(* Python values *)

None == <<"None">>
PyBool(b) == <<"bool", b>>
PyInt(n) == <<"int", n>>
PyStr(s) == <<"str", s>>
PyList(s) == <<"list", s>>
PyTuple(s) == <<"tuple", s>>
PyDict(pairs) == <<"dict", pairs>>
PyObj(r) == <<"obj", r>>

RECURSIVE Normalize(_, _)
Normalize(n, d) ==
    IF d > 1 /\ n % 2 = 0 THEN Normalize(n \div 2, d \div 2) ELSE <<n, d>>

PyFloat(n, d) == <<"float", Normalize(n, d)[1], Normalize(n, d)[2]>>

IsNone(v) == v[1] = "None"
IsDict(v) == v[1] = "dict"
IsList(v) == v[1] = "list"
IsSeq(v) == v[1] \in {"list", "tuple"}
Items(v) == v[2]
Attr(o) == o[2]

\* bool(v): Python truthiness.
Truthy(v) ==
    CASE v[1] = "None" -> FALSE
      [] v[1] = "bool" -> v[2]
      [] v[1] = "int" -> v[2] # 0
      [] v[1] = "float" -> v[2] # 0
      [] v[1] = "str" -> v[2] # ""
      [] v[1] \in {"list", "tuple", "dict"} -> Len(v[2]) > 0
      [] OTHER -> TRUE

\* a or b
PyOr(a, b) == IF Truthy(a) THEN a ELSE b

\* a * b on numbers: int * int is an int, anything else a float.
Mul(a, b) ==
    IF a[1] = "int" /\ b[1] = "int" THEN PyInt(a[2] * b[2])
    ELSE LET an == a[2]
             ad == IF a[1] = "int" THEN 1 ELSE a[3]
             bn == b[2]
             bd == IF b[1] = "int" THEN 1 ELSE b[3]
         IN  PyFloat(an * bn, ad * bd)

\* a + b on numbers.
Add(a, b) ==
    IF a[1] = "int" /\ b[1] = "int" THEN PyInt(a[2] + b[2])
    ELSE LET an == a[2]
             ad == IF a[1] = "int" THEN 1 ELSE a[3]
             bn == b[2]
             bd == IF b[1] = "int" THEN 1 ELSE b[3]
         IN  PyFloat(an * bd + bn * ad, ad * bd)

\* int(v): the truncating cast, which rounds toward zero.
int(v) ==
    IF v[1] = "int" THEN v
    ELSE IF v[2] >= 0 THEN PyInt(v[2] \div v[3])
         ELSE PyInt(-((-v[2]) \div v[3]))

\* dict operations: key in d, d.get(key), d[key] (the caller checks the key
\* is there), d[key] = value.
RECURSIVE Find(_, _, _)
Find(pairs, k, i) ==
    IF i > Len(pairs) THEN 0
    ELSE IF pairs[i][1] = k THEN i ELSE Find(pairs, k, i + 1)

Has(d, k) == Find(d[2], k, 1) # 0
Get(d, k) == IF Has(d, k) THEN d[2][Find(d[2], k, 1)][2] ELSE None
Put(d, k, v) ==
    IF Has(d, k)
    THEN PyDict([d[2] EXCEPT ![Find(d[2], k, 1)] = <<k, v>>])
    ELSE PyDict(Append(d[2], <<k, v>>))
Keys(d) == {d[2][i][1] : i \in 1..Len(d[2])}

----------------------------------------------------------------------------
(* The classes of locations.py *)

Map(name, scale, offset) ==
    PyObj([cls |-> "Map", name |-> name, scale |-> scale, offset |-> offset])

MapLocation(map, x, y, size, border_thickness, restrict_visibility_rules, force_invisibility_rules) ==
    PyObj([cls |-> "MapLocation", map |-> map, x |-> x, y |-> y, size |-> size,
           border_thickness |-> border_thickness,
           restrict_visibility_rules |-> restrict_visibility_rules,
           force_invisibility_rules |-> force_invisibility_rules])

Area(name, short_name, access_rules, visibility_rules, chest_unopened_img, chest_opened_img, overlay_background, color, parent, children) ==
    PyObj([cls |-> "Area", name |-> name, short_name |-> short_name,
           access_rules |-> PyOr(access_rules, PyList(<<>>)),
           visibility_rules |-> visibility_rules,
           chest_unopened_img |-> chest_unopened_img,
           chest_opened_img |-> chest_opened_img,
           overlay_background |-> overlay_background, color |-> color,
           parent |-> parent, children |-> PyOr(children, PyList(<<>>))])

Location(name, access_rules, chest_unopened_img, chest_opened_img, map_locations, sections) ==
    PyObj([cls |-> "Location", name |-> name,
           access_rules |-> PyOr(access_rules, PyList(<<>>)),
           chest_unopened_img |-> chest_unopened_img,
           chest_opened_img |-> chest_opened_img,
           map_locations |-> PyOr(map_locations, PyList(<<>>)),
           sections |-> PyOr(sections, PyList(<<>>))])

\* Section.__init__ testing `if not item_count` in place of `is None`.
Section_falsy_count(name, clear_as_group, chest_unopened_img, chest_opened_img, item_count, hosted_item, access_rules, visibility_rules, location_id) ==
    PyObj([cls |-> "Section", name |-> name, clear_as_group |-> clear_as_group,
           chest_unopened_img |-> chest_unopened_img,
           chest_opened_img |-> chest_opened_img, hosted_item |-> hosted_item,
           access_rules |-> PyOr(access_rules, PyList(<<>>)),
           visibility_rules |-> visibility_rules,
           location_id |-> location_id,
           item_count |->
               IF ~Truthy(item_count)
               THEN IF IsSeq(location_id) THEN PyInt(Len(Items(location_id)))
                    ELSE PyInt(1)
               ELSE item_count])

Section(name, clear_as_group, chest_unopened_img, chest_opened_img, item_count, hosted_item, access_rules, visibility_rules, location_id) ==
    PyObj([cls |-> "Section", name |-> name, clear_as_group |-> clear_as_group,
           chest_unopened_img |-> chest_unopened_img,
           chest_opened_img |-> chest_opened_img, hosted_item |-> hosted_item,
           access_rules |-> PyOr(access_rules, PyList(<<>>)),
           visibility_rules |-> visibility_rules,
           location_id |-> location_id,
           item_count |->
               IF IsNone(item_count)
               THEN IF IsSeq(location_id) THEN PyInt(Len(Items(location_id)))
                    ELSE PyInt(1)
               ELSE item_count])

\* Map.location(x, y, **kwargs)
Map_location(self, x, y, size, border_thickness, restrict_visibility_rules, force_invisibility_rules) ==
    MapLocation(self, x, y, size, border_thickness, restrict_visibility_rules,
                force_invisibility_rules)

\* Map.simple_location giving location_id to nothing.
Map_simple_location_noid(self, name, x, y, location_id, access_rules, chest_unopened_img, chest_opened_img) ==
    Location(name, access_rules, chest_unopened_img, chest_opened_img,
             PyList(<<Map_location(self, x, y, None, None, None, None)>>),
             PyList(<<Section(name, PyBool(FALSE), None, None, None, None, None,
                              None, None)>>))

\* Map.simple_location(name, x, y, location_id, **kwargs): kwargs are the
\* Location's access_rules, chest_unopened_img and chest_opened_img.
Map_simple_location(self, name, x, y, location_id, access_rules, chest_unopened_img, chest_opened_img) ==
    Location(name, access_rules, chest_unopened_img, chest_opened_img,
             PyList(<<Map_location(self, x, y, None, None, None, None)>>),
             PyList(<<Section(name, PyBool(FALSE), None, None, None, None, None,
                              None, location_id)>>))

\* obj[key] = value when the value is truthy
PutIf(d, k, v) == IF Truthy(v) THEN Put(d, k, v) ELSE d

\* MapLocation.__json__ casting before it scales: int(x) * scale + offset.
MapLocation_json_cast_first(self) ==
    LET s == Attr(self)
        m == Attr(s.map)
        o0 == PyDict(<< <<"map", m.name>>,
                        <<"x", Add(int(Mul(int(s.x), m.scale)), m.offset)>>,
                        <<"y", Add(int(Mul(int(s.y), m.scale)), m.offset)>> >>)
        o1 == PutIf(o0, "size", s.size)
        o2 == PutIf(o1, "border_thickness", s.border_thickness)
        o3 == PutIf(o2, "restrict_visibility_rules", s.restrict_visibility_rules)
    IN  PutIf(o3, "force_invisibility_rules", s.force_invisibility_rules)

MapLocation_json(self) ==
    LET s == Attr(self)
        m == Attr(s.map)
        o0 == PyDict(<< <<"map", m.name>>,
                        <<"x", Add(int(Mul(s.x, m.scale)), m.offset)>>,
                        <<"y", Add(int(Mul(s.y, m.scale)), m.offset)>> >>)
        o1 == PutIf(o0, "size", s.size)
        o2 == PutIf(o1, "border_thickness", s.border_thickness)
        o3 == PutIf(o2, "restrict_visibility_rules", s.restrict_visibility_rules)
    IN  PutIf(o3, "force_invisibility_rules", s.force_invisibility_rules)

Area_json(self) ==
    LET s == Attr(self)
        o0 == PyDict(<< <<"name", s.name>> >>)
        o1 == PutIf(o0, "short_name", s.short_name)
        o2 == PutIf(o1, "access_rules", s.access_rules)
        o3 == PutIf(o2, "visibility_rules", s.visibility_rules)
        o4 == PutIf(o3, "chest_unopened_img", s.chest_unopened_img)
        o5 == PutIf(o4, "chest_opened_img", s.chest_opened_img)
        o6 == PutIf(o5, "overlay_background", s.overlay_background)
        o7 == PutIf(o6, "color", s.color)
        o8 == PutIf(o7, "parent", s.parent)
    IN  Put(o8, "children", s.children)

\* Location.__json__ writing its lists whether empty or not.
Location_json_lists(self) ==
    LET s == Attr(self)
        o0 == PyDict(<< <<"name", s.name>> >>)
        o1 == PutIf(o0, "access_rules", s.access_rules)
        o2 == PutIf(o1, "chest_unopened_img", s.chest_unopened_img)
        o3 == PutIf(o2, "chest_opened_img", s.chest_opened_img)
        o4 == Put(o3, "sections", s.sections)
    IN  Put(o4, "map_locations", s.map_locations)

Location_json(self) ==
    LET s == Attr(self)
        o0 == PyDict(<< <<"name", s.name>> >>)
        o1 == PutIf(o0, "access_rules", s.access_rules)
        o2 == PutIf(o1, "chest_unopened_img", s.chest_unopened_img)
        o3 == PutIf(o2, "chest_opened_img", s.chest_opened_img)
        o4 == PutIf(o3, "sections", s.sections)
    IN  PutIf(o4, "map_locations", s.map_locations)

\* Section.__json__ writing item_count like any other field, when truthy.
Section_json_truthy_count(self) ==
    LET s == Attr(self)
        o0 == PyDict(<< <<"name", s.name>> >>)
        o1 == PutIf(o0, "item_count", s.item_count)
        o2 == PutIf(o1, "clear_as_group", s.clear_as_group)
        o3 == PutIf(o2, "chest_unopened_img", s.chest_unopened_img)
        o4 == PutIf(o3, "chest_opened_img", s.chest_opened_img)
        o5 == PutIf(o4, "access_rules", s.access_rules)
        o6 == PutIf(o5, "visibility_rules", s.visibility_rules)
    IN  PutIf(o6, "hosted_item", s.hosted_item)

\* Section.__json__ writing location_id too.
Section_json_with_id(self) ==
    LET s == Attr(self)
        o0 == PyDict(<< <<"name", s.name>> >>)
        o1 == IF s.item_count # PyInt(1) \/ ~Truthy(s.hosted_item)
              THEN Put(o0, "item_count", s.item_count) ELSE o0
        o2 == PutIf(o1, "clear_as_group", s.clear_as_group)
        o3 == PutIf(o2, "chest_unopened_img", s.chest_unopened_img)
        o4 == PutIf(o3, "chest_opened_img", s.chest_opened_img)
        o5 == PutIf(o4, "access_rules", s.access_rules)
        o6 == PutIf(o5, "visibility_rules", s.visibility_rules)
        o7 == PutIf(o6, "hosted_item", s.hosted_item)
    IN  PutIf(o7, "location_id", s.location_id)

Section_json(self) ==
    LET s == Attr(self)
        o0 == PyDict(<< <<"name", s.name>> >>)
        o1 == IF s.item_count # PyInt(1) \/ ~Truthy(s.hosted_item)
              THEN Put(o0, "item_count", s.item_count) ELSE o0
        o2 == PutIf(o1, "clear_as_group", s.clear_as_group)
        o3 == PutIf(o2, "chest_unopened_img", s.chest_unopened_img)
        o4 == PutIf(o3, "chest_opened_img", s.chest_opened_img)
        o5 == PutIf(o4, "access_rules", s.access_rules)
        o6 == PutIf(o5, "visibility_rules", s.visibility_rules)
    IN  PutIf(o6, "hosted_item", s.hosted_item)

----------------------------------------------------------------------------
(* common.py: the encoder and dumps *)

\* PopTrackerEncoder.default, applied by json.dumps wherever it meets an
\* object: the __json__ hook, else the attribute dict (a Map has no hook).
default(o) ==
    CASE Attr(o).cls = "Area" -> Area_json(o)
      [] Attr(o).cls = "Location" -> Location_json(o)
      [] Attr(o).cls = "Section" -> Section_json(o)
      [] Attr(o).cls = "MapLocation" -> MapLocation_json(o)
      [] OTHER -> PyDict(<< <<"name", Attr(o).name>>, <<"scale", Attr(o).scale>>, <<"offset", Attr(o).offset>> >>)

\* The plain JSON tree json.dumps walks: hooks applied at every depth, tuples
\* written as arrays.
RECURSIVE Encode(_)
Encode(v) ==
    CASE v[1] = "obj" -> Encode(default(v))
      [] v[1] \in {"list", "tuple"} -> PyList([i \in 1..Len(v[2]) |-> Encode(v[2][i])])
      [] v[1] = "dict" -> PyDict([i \in 1..Len(v[2]) |-> <<v[2][i][1], Encode(v[2][i][2])>>])
      [] OTHER -> v

P(c) == <<"p", c>>

\* JSONEncoder: the text of a plain JSON tree, with the default separators
\* ", " and ": ".
RECURSIVE Render(_)
RECURSIVE RenderItems(_, _)
RECURSIVE RenderPairs(_, _)
Render(v) ==
    CASE v[1] = "None" -> << <<"k", "null">> >>
      [] v[1] = "bool" -> << <<"k", IF v[2] THEN "true" ELSE "false">> >>
      [] v[1] = "int" -> << <<"i", v[2]>> >>
      [] v[1] = "float" -> << <<"f", v[2], v[3]>> >>
      [] v[1] = "str" -> << <<"s", v[2]>> >>
      [] v[1] = "list" -> <<P("[")>> \o RenderItems(v[2], 1) \o <<P("]")>>
      [] v[1] = "dict" -> <<P("{")>> \o RenderPairs(v[2], 1) \o <<P("}")>>

RenderItems(s, i) ==
    IF i > Len(s) THEN <<>>
    ELSE (IF i > 1 THEN <<P(","), P(" ")>> ELSE <<>>) \o Render(s[i]) \o RenderItems(s, i + 1)

RenderPairs(s, i) ==
    IF i > Len(s) THEN <<>>
    ELSE (IF i > 1 THEN <<P(","), P(" ")>> ELSE <<>>)
         \o << <<"s", s[i][1]>>, P(":"), P(" ") >> \o Render(s[i][2]) \o RenderPairs(s, i + 1)

\* poptrackerlib.common.dumps(obj)
dumps(v) == Render(Encode(v))

----------------------------------------------------------------------------
(* json.loads *)

IsSpace(tok) == tok = P(" ") \/ tok = P("\n")

RECURSIVE Skip(_, _)
Skip(t, i) == IF i <= Len(t) /\ IsSpace(t[i]) THEN Skip(t, i + 1) ELSE i

Fail == [ok |-> FALSE, v |-> None, i |-> 0]

RECURSIVE ParseValue(_, _)
RECURSIVE ParseElems(_, _, _)
RECURSIVE ParseMembers(_, _, _)
ParseValue(t, i) ==
    LET j == Skip(t, i) IN
    IF j > Len(t) THEN Fail
    ELSE CASE t[j][1] = "s" -> [ok |-> TRUE, v |-> PyStr(t[j][2]), i |-> j + 1]
           [] t[j][1] = "i" -> [ok |-> TRUE, v |-> PyInt(t[j][2]), i |-> j + 1]
           [] t[j][1] = "f" -> [ok |-> TRUE, v |-> <<"float", t[j][2], t[j][3]>>, i |-> j + 1]
           [] t[j][1] = "k" ->
                [ok |-> TRUE, i |-> j + 1,
                 v |-> IF t[j][2] = "null" THEN None ELSE PyBool(t[j][2] = "true")]
           [] t[j] = P("[") ->
                LET k == Skip(t, j + 1) IN
                IF k <= Len(t) /\ t[k] = P("]")
                THEN [ok |-> TRUE, v |-> PyList(<<>>), i |-> k + 1]
                ELSE ParseElems(t, j + 1, <<>>)
           [] t[j] = P("{") ->
                LET k == Skip(t, j + 1) IN
                IF k <= Len(t) /\ t[k] = P("}")
                THEN [ok |-> TRUE, v |-> PyDict(<<>>), i |-> k + 1]
                ELSE ParseMembers(t, j + 1, PyDict(<<>>))
           [] OTHER -> Fail

ParseElems(t, i, acc) ==
    LET r == ParseValue(t, i) IN
    IF ~r.ok THEN Fail
    ELSE LET k == Skip(t, r.i) IN
         IF k > Len(t) THEN Fail
         ELSE IF t[k] = P(",") THEN ParseElems(t, k + 1, Append(acc, r.v))
         ELSE IF t[k] = P("]") THEN [ok |-> TRUE, v |-> PyList(Append(acc, r.v)), i |-> k + 1]
         ELSE Fail

ParseMembers(t, i, acc) ==
    LET j == Skip(t, i)
        c == Skip(t, j + 1)
    IN  IF j > Len(t) \/ c > Len(t) THEN Fail
        ELSE IF t[j][1] # "s" \/ t[c] # P(":") THEN Fail
        ELSE LET r == ParseValue(t, c + 1) IN
             IF ~r.ok THEN Fail
             ELSE LET k == Skip(t, r.i) IN
                  IF k > Len(t) THEN Fail
                  ELSE IF t[k] = P(",") THEN ParseMembers(t, k + 1, Put(acc, t[j][2], r.v))
                  ELSE IF t[k] = P("}") THEN [ok |-> TRUE, v |-> Put(acc, t[j][2], r.v), i |-> k + 1]
                  ELSE Fail

\* json.loads(text): one value, then nothing but blanks.
loads(t) ==
    LET r == ParseValue(t, 1) IN
    IF r.ok /\ Skip(t, r.i) > Len(t) THEN r ELSE Fail

----------------------------------------------------------------------------
(* locations.py: the importer.  A call either returns a value or raises:    *)
(* [err |-> "", v |-> value] or [err |-> the exception's class, v |-> None] *)

Ok(v) == [err |-> "", v |-> v]
Raise(e) == [err |-> e, v |-> None]

\* `for e in v`: the elements of a list, the keys of a dict, the characters
\* of a str; anything else is not iterable.
Iter(v) ==
    CASE v[1] \in {"list", "tuple"} -> Ok(v[2])
      [] v[1] = "dict" -> Ok([i \in 1..Len(v[2]) |-> PyStr(v[2][i][1])])
      [] v[1] = "str" -> Ok(IF v[2] = "" THEN <<>> ELSE <<PyStr("c")>>)
      [] OTHER -> Raise("TypeError")

\* A loop that skips the rounds that raise.
FirstErr_skip(rs) ==
    LET kept == SelectSeq(rs, LAMBDA r : r.err = "") IN Ok([i \in 1..Len(kept) |-> kept[i].v])

\* The first exception of a loop whose i-th round ends as rs[i], else the
\* list of the rounds' values.
FirstErr(rs) ==
    IF \E i \in 1..Len(rs) : rs[i].err # ""
    THEN Raise(rs[CHOOSE i \in 1..Len(rs) : rs[i].err # "" /\ \A j \in 1..(i - 1) : rs[j].err = ""].err)
    ELSE Ok([i \in 1..Len(rs) |-> rs[i].v])

\* Section(s['name'], clear_as_group=s.get('clear_as_group', False), ...)
SectionFrom(s) ==
    IF ~IsDict(s) THEN Raise("TypeError")
    ELSE IF ~Has(s, "name") THEN Raise("KeyError")
    ELSE Ok(Section(Get(s, "name"),
                    IF Has(s, "clear_as_group") THEN Get(s, "clear_as_group") ELSE PyBool(FALSE),
                    Get(s, "chest_unopened_img"), Get(s, "chest_opened_img"),
                    Get(s, "item_count"), Get(s, "hosted_item"), Get(s, "access_rules"),
                    Get(s, "visibility_rules"), Get(s, "location_id")))

\* MapLocation(Map(m['map']), m['x'], m['y'], size=m.get('size'), ...)
MapLocationFrom(m) ==
    IF ~IsDict(m) THEN Raise("TypeError")
    ELSE IF ~Has(m, "map") \/ ~Has(m, "x") \/ ~Has(m, "y") THEN Raise("KeyError")
    ELSE Ok(MapLocation(Map(Get(m, "map"), PyInt(1), PyInt(0)), Get(m, "x"), Get(m, "y"),
                        Get(m, "size"), Get(m, "border_thickness"),
                        Get(m, "restrict_visibility_rules"),
                        Get(m, "force_invisibility_rules")))

\* if data.get('sections'): for s in data['sections']: location.sections.append(...)
SectionsFrom(data) ==
    IF ~Truthy(Get(data, "sections")) THEN Ok(<<>>)
    ELSE LET it == Iter(Get(data, "sections")) IN
         IF it.err # "" THEN it
         ELSE FirstErr([i \in 1..Len(it.v) |-> SectionFrom(it.v[i])])

\* if data.get('map_locations'): for m in data['map_locations']: location.map_locations.append(...)
MapLocationsFrom(data) ==
    IF ~Truthy(Get(data, "map_locations")) THEN Ok(<<>>)
    ELSE LET it == Iter(Get(data, "map_locations")) IN
         IF it.err # "" THEN it
         ELSE FirstErr([i \in 1..Len(it.v) |-> MapLocationFrom(it.v[i])])

\* The overwrite testing 'access_rules' in data in place of
\* data.get('access_rules').
WithAccessRules_has(data, node) ==
    IF Has(data, "access_rules")
    THEN PyObj([Attr(node) EXCEPT !.access_rules = Get(data, "access_rules")])
    ELSE node

\* if data.get('access_rules'): location.access_rules = data['access_rules']
WithAccessRules(data, node) ==
    IF Truthy(Get(data, "access_rules"))
    THEN PyObj([Attr(node) EXCEPT !.access_rules = Get(data, "access_rules")])
    ELSE node

\* _handle_location_data testing data.get('children') in place of
\* 'children' in data.
RECURSIVE handle_location_data_truthy(_)
handle_location_data_truthy(data) ==
    IF ~IsDict(data) THEN Raise("TypeError")
    ELSE IF Truthy(Get(data, "children"))
    THEN IF ~Has(data, "name") THEN Raise("KeyError")
         ELSE LET it == Iter(Get(data, "children")) IN
              IF it.err # "" THEN it
              ELSE LET cs == FirstErr([i \in 1..Len(it.v) |-> handle_location_data_truthy(it.v[i])]) IN
                   IF cs.err # "" THEN cs
                   ELSE Ok(WithAccessRules(data,
                            Area(Get(data, "name"), None, None, None, None, None, None, None, None,
                                 PyList(cs.v))))
    ELSE IF ~Has(data, "name") THEN Raise("KeyError")
         ELSE LET ss == SectionsFrom(data)
                  ms == MapLocationsFrom(data)
              IN  IF ss.err # "" THEN ss
                  ELSE IF ms.err # "" THEN ms
                  ELSE Ok(WithAccessRules(data,
                            Location(Get(data, "name"), None, None, None, PyList(ms.v), PyList(ss.v))))

RECURSIVE handle_location_data(_)
handle_location_data(data) ==
    IF ~IsDict(data) THEN Raise("TypeError")
    ELSE IF Has(data, "children")
    THEN IF ~Has(data, "name") THEN Raise("KeyError")
         ELSE LET it == Iter(Get(data, "children")) IN
              IF it.err # "" THEN it
              ELSE LET cs == FirstErr([i \in 1..Len(it.v) |-> handle_location_data(it.v[i])]) IN
                   IF cs.err # "" THEN cs
                   ELSE Ok(WithAccessRules(data,
                            Area(Get(data, "name"), None, None, None, None, None, None, None, None,
                                 PyList(cs.v))))
    ELSE IF ~Has(data, "name") THEN Raise("KeyError")
         ELSE LET ss == SectionsFrom(data)
                  ms == MapLocationsFrom(data)
              IN  IF ss.err # "" THEN ss
                  ELSE IF ms.err # "" THEN ms
                  ELSE Ok(WithAccessRules(data,
                            Location(Get(data, "name"), None, None, None, PyList(ms.v), PyList(ss.v))))

IsBlank(tok) == tok = P(" ") \/ tok = P("\n")

\* f.readlines(): each line ends after its newline; the last may have none.
RECURSIVE readlines(_)
readlines(t) ==
    IF t = <<>> THEN <<>>
    ELSE LET n == IF \E i \in 1..Len(t) : t[i] = P("\n")
                  THEN CHOOSE i \in 1..Len(t) : t[i] = P("\n") /\ \A j \in 1..(i - 1) : t[j] # P("\n")
                  ELSE Len(t)
         IN  <<SubSeq(t, 1, n)>> \o readlines(SubSeq(t, n + 1, Len(t)))

\* line.strip()
RECURSIVE strip(_)
strip(s) ==
    IF s = <<>> THEN s
    ELSE IF IsBlank(s[1]) THEN strip(Tail(s))
    ELSE IF IsBlank(s[Len(s)]) THEN strip(SubSeq(s, 1, Len(s) - 1))
    ELSE s

\* s.startswith('//')
startswith_slashes(s) == Len(s) >= 2 /\ s[1] = P("/") /\ s[2] = P("/")

\* The filter without strip(): line.startswith('//').
RECURSIVE FilterComments_nostrip(_)
FilterComments_nostrip(lines) ==
    IF lines = <<>> THEN <<>>
    ELSE (IF startswith_slashes(lines[1]) THEN <<>> ELSE <<lines[1]>>)
         \o FilterComments_nostrip(Tail(lines))

\* [line for line in lines if not line.strip().startswith('//')]
RECURSIVE FilterComments(_)
FilterComments(lines) ==
    IF lines = <<>> THEN <<>>
    ELSE (IF startswith_slashes(strip(lines[1])) THEN <<>> ELSE <<lines[1]>>)
         \o FilterComments(Tail(lines))

\* ''.join(lines)
RECURSIVE join(_)
join(lines) == IF lines = <<>> THEN <<>> ELSE lines[1] \o join(Tail(lines))

\* import_locations_from_file, given the file's text.
import_locations_from_file(text) ==
    LET data == loads(join(FilterComments(readlines(text)))) IN
    IF ~data.ok THEN Raise("JSONDecodeError")
    ELSE LET it == Iter(data.v) IN
         IF it.err # "" THEN it
         ELSE LET ns == FirstErr([i \in 1..Len(it.v) |-> handle_location_data(it.v[i])]) IN
              IF ns.err # "" THEN ns ELSE Ok(PyList(ns.v))

----------------------------------------------------------------------------
(* Bounds and the inputs drawn from them *)

\* Objects (areas, locations, sections, map locations) in an authored forest.
MaxObjects == 3
\* Optional fields holding a non-default value, over a whole authored forest.
MaxKw == 1
\* The largest explicit item_count.
MaxItemCount == 2
\* The longest location_id sequence.
MaxIds == 2
\* Comment lines added to a file.
MaxComments == 2

\* Names are opaque to the library: the k-th object constructed in a session
\* is given the k-th name.
NameOf(k) == PyStr(<<"A", "B", "C", "D", "E", "F", "G", "H">>[k])
Imgs == {None, PyStr("u.png")}
Strs == {None, PyStr("s")}
Rules == {None, PyList(<<PyStr("r")>>)}
Flags == {PyBool(FALSE), PyBool(TRUE)}
Counts == {None} \cup {PyInt(n) : n \in 0..MaxItemCount}
Hosted == {None, PyStr(""), PyStr("boss")}
Sizes == {None, PyInt(0), PyInt(4)}
LocIds == {None, PyInt(5)} \cup {PyList([i \in 1..n |-> PyInt(i)]) : n \in 0..MaxIds} \cup {PyTuple([i \in 1..n |-> PyInt(i)]) : n \in 1..MaxIds}

\* Keyword arguments of the constructors.
SectionKw == [clear_as_group : Flags, chest_unopened_img : Imgs, chest_opened_img : Imgs, item_count : Counts, hosted_item : Hosted, access_rules : Rules, visibility_rules : Rules, location_id : LocIds]
LocationKw == [access_rules : Rules, chest_unopened_img : Imgs, chest_opened_img : Imgs]
AreaKw == [short_name : Strs, access_rules : Rules, visibility_rules : Rules, chest_unopened_img : Imgs, chest_opened_img : Imgs, overlay_background : Strs, color : Strs, parent : Strs]
MapLocationKw == [size : Sizes, border_thickness : Sizes, restrict_visibility_rules : Rules, force_invisibility_rules : Rules]

Defaults == {None, PyBool(FALSE), PyList(<<>>)}
Given(kw) == Cardinality({f \in DOMAIN kw : kw[f] \notin Defaults})
UpTo(S, n) == {kw \in S : Given(kw) <= n}

RECURSIVE SumSeq(_)
SumSeq(s) == IF s = <<>> THEN 0 ELSE s[1] + SumSeq(Tail(s))

\* The lists of objects an object owns.
Owned(o) ==
    CASE Attr(o).cls = "Area" -> Items(Attr(o).children)
      [] Attr(o).cls = "Location" -> Items(Attr(o).sections) \o Items(Attr(o).map_locations)
      [] OTHER -> <<>>

RECURSIVE Size(_)
Size(o) == 1 + SumSeq([i \in 1..Len(Owned(o)) |-> Size(Owned(o)[i])])

OptFields(o) ==
    CASE Attr(o).cls = "Area" -> DOMAIN CHOOSE kw \in AreaKw : TRUE
      [] Attr(o).cls = "Location" -> DOMAIN CHOOSE kw \in LocationKw : TRUE
      [] Attr(o).cls = "Section" -> (DOMAIN CHOOSE kw \in SectionKw : TRUE) \ {"item_count"}
      [] OTHER -> DOMAIN CHOOSE kw \in MapLocationKw : TRUE

RECURSIVE KwUsed(_)
KwUsed(o) ==
    Cardinality({f \in OptFields(o) : Attr(o)[f] \notin Defaults})
    + (IF Attr(o).cls = "Section" /\ Attr(o).item_count # Attr(Section(None, None, None, None, None, None, None, None, Attr(o).location_id)).item_count THEN 1 ELSE 0)
    + SumSeq([i \in 1..Len(Owned(o)) |-> KwUsed(Owned(o)[i])])

ForestSize(f) == SumSeq([i \in 1..Len(f) |-> Size(f[i])])
ForestKw(f) == SumSeq([i \in 1..Len(f) |-> KwUsed(f[i])])

SectionKwBy == [n \in 0..MaxKw |-> UpTo(SectionKw, n)]
LocationKwBy == [n \in 0..MaxKw |-> UpTo(LocationKw, n)]
AreaKwBy == [n \in 0..MaxKw |-> UpTo(AreaKw, n)]
MapLocationKwBy == [n \in 0..MaxKw |-> UpTo(MapLocationKw, n)]

\* The maps and raw coordinates of an authored forest.
Maps == {Map(PyStr("m"), PyInt(1), PyInt(0)), Map(PyStr("w"), PyInt(2), PyInt(10))}
Xs == {PyFloat(-3, 2)}
Ys == {PyInt(5)}

\* Files written by hand: descriptors with and without name, children,
\* sections and map_locations, a comment after other content, slashes inside
\* a string, text that is no JSON, and access_rules that are a list of rules,
\* the empty list, null and false.
S(s) == <<"s", s>>
NL == P("\n")
K(w) == <<"k", w>>
HandWritten ==
    { <<P("["), NL, P("{"), S("name"), P(":"), S("A"), P("}"), P(","), NL, P("{"), S("name"), P(":"), S("B"), P(","), S("children"), P(":"), P("["), P("]"), P("}"), NL, P("]"), NL>>,
      <<P("["), NL, P("{"), S("name"), P(":"), S("A"), P("}"), P(","), NL, P("{"), S("children"), P(":"), P("["), P("]"), P("}"), NL, P("]"), NL>>,
      <<P("["), NL, P("{"), S("name"), P(":"), S("A"), P(","), S("children"), P(":"), P("["), NL, P("{"), S("name"), P(":"), S("B"), P("}"), P(","), NL, P("{"), S("sections"), P(":"), P("["), P("]"), P("}"), NL, P("]"), P("}"), NL, P("]"), NL>>,
      <<P("["), NL, P("{"), S("name"), P(":"), S("A"), P("}"), P(","), NL, P("{"), S("name"), P(":"), S("B"), P(","), S("sections"), P(":"), P("["), P("{"), S("name"), P(":"), S("s"), P("}"), P(","), P("{"), S("item_count"), P(":"), <<"i", 2>>, P("}"), P("]"), P("}"), NL, P("]"), NL>>,
      <<P("["), NL, P("{"), S("name"), P(":"), S("A"), P(","), S("sections"), P(":"), P("["), P("{"), S("name"), P(":"), S("s"), P(","), S("location_id"), P(":"), P("["), <<"i", 1>>, P(","), <<"i", 2>>, P("]"), P("}"), P("]"), P("}"), NL, P("]"), NL>>,
      <<P("["), NL, P("{"), S("name"), P(":"), S("A//B"), P("}"), P(" "), P("/"), P("/"), P(" "), S("c"), NL, P("]"), NL>>,
      <<P("["), NL, P("{"), S("name"), P(":"), S("A//B"), P(","), S("children"), P(":"), P("["), NL, P("{"), S("name"), P(":"), S("B"), P(","), S("access_rules"), P(":"), P("["), S("r"), P("]"), P("}"), NL, P("]"), P("}"), NL, P("]"), NL>>,
      <<P("["), <<"i", 1>>, P(","), P("{"), P("}"), P("]"), NL>>,
      <<P("["), NL, P("{"), S("name"), P(":"), S("A"), P(","), S("map_locations"), P(":"), P("["), P("{"), S("map"), P(":"), S("m"), P(","), S("x"), P(":"), <<"i", 3>>, P("}"), P("]"), P("}"), NL, P("]"), NL>>,
      <<P("["), NL, P("{"), S("name"), P(":"), S("A"), P(","), S("access_rules"), P(":"), K("null"), P("}"), P(","), NL, P("{"), S("name"), P(":"), S("B"), P(","), S("children"), P(":"), P("["), P("]"), P(","), S("access_rules"), P(":"), P("["), S("r"), P("]"), P("}"), NL, P("]"), NL>>,
      <<P("["), NL, P("{"), S("name"), P(":"), S("A"), P(","), S("children"), P(":"), P("["), P("{"), S("name"), P(":"), S("B"), P(","), S("access_rules"), P(":"), P("["), P("]"), P("}"), P("]"), P(","), S("access_rules"), P(":"), K("false"), P("}"), NL, P("]"), NL>> }

\* The comment lines added to a file.
CommentLines == { <<P("/"), P("/"), P(" "), S("c"), NL>>, <<P(" "), P("/"), P("/"), NL>> }

----------------------------------------------------------------------------
(* The authoring session: build a forest, dump it (or write a file by      *)
(* hand), add comment lines, import the file, dump what was imported.      *)

Nothing == Ok(None)

Init ==
    /\ pc = "build"
    /\ forest = <<>>
    /\ emitted = None
    /\ file = <<>>
    /\ edits = 0
    /\ ret = Nothing
    /\ out = <<>>
    /\ args = [op |-> "none"]
    /\ obj = None
    /\ json = None

Room == MaxObjects - ForestSize(forest)
Fresh == NameOf(ForestSize(forest) + 1)
KwLeft == MaxKw - ForestKw(forest)
Last == forest[Len(forest)]
LastIsLocation == Len(forest) > 0 /\ Attr(Last).cls = "Location"

\* forest.append(Location(name, **kw))
NewLocation ==
    /\ pc = "build" /\ Room >= 1
    /\ \E kw \in LocationKwBy[KwLeft] :
         forest' = Append(forest, Location(Fresh, kw.access_rules, kw.chest_unopened_img, kw.chest_opened_img, None, None))
    /\ UNCHANGED <<pc, emitted, file, edits, ret, out, args, obj, json>>

\* The last k nodes become the children of a new Area, which takes their place.
NewArea ==
    /\ pc = "build" /\ Room >= 1
    /\ \E kw \in AreaKwBy[KwLeft], k \in 0..Len(forest) :
         forest' = Append(SubSeq(forest, 1, Len(forest) - k),
                          Area(Fresh, kw.short_name, kw.access_rules, kw.visibility_rules, kw.chest_unopened_img, kw.chest_opened_img, kw.overlay_background, kw.color, kw.parent,
                               PyList(SubSeq(forest, Len(forest) - k + 1, Len(forest)))))
    /\ UNCHANGED <<pc, emitted, file, edits, ret, out, args, obj, json>>

\* location.sections.append(Section(name, **kw)) on the last Location
AddSection ==
    /\ pc = "build" /\ Room >= 1 /\ LastIsLocation
    /\ \E kw \in SectionKwBy[KwLeft] :
         LET sec == Section(Fresh, kw.clear_as_group, kw.chest_unopened_img, kw.chest_opened_img, kw.item_count, kw.hosted_item, kw.access_rules, kw.visibility_rules, kw.location_id)
         IN  forest' = [forest EXCEPT ![Len(forest)] = PyObj([Attr(Last) EXCEPT !.sections = PyList(Append(Items(@), sec))])]
    /\ UNCHANGED <<pc, emitted, file, edits, ret, out, args, obj, json>>

\* location.map_locations.append(map.location(x, y, **kw)) on the last Location
AddMapLocation ==
    /\ pc = "build" /\ Room >= 1 /\ LastIsLocation
    /\ \E map \in Maps, x \in Xs, y \in Ys, kw \in MapLocationKwBy[KwLeft] :
         LET ml == Map_location(map, x, y, kw.size, kw.border_thickness, kw.restrict_visibility_rules, kw.force_invisibility_rules)
         IN  forest' = [forest EXCEPT ![Len(forest)] = PyObj([Attr(Last) EXCEPT !.map_locations = PyList(Append(Items(@), ml))])]
    /\ UNCHANGED <<pc, emitted, file, edits, ret, out, args, obj, json>>

\* forest.append(map.simple_location(name, x, y, location_id))
AddSimpleLocation ==
    /\ pc = "build" /\ Room >= 3
    /\ \E map \in Maps, x \in Xs, y \in Ys, id \in LocIds :
         /\ (id \in Defaults \/ KwLeft >= 1)
         /\ forest' = Append(forest, Map_simple_location(map, Fresh, x, y, id, None, None, None))
    /\ UNCHANGED <<pc, emitted, file, edits, ret, out, args, obj, json>>

\* f.write(dumps(forest)): the forest is frozen from here on.
Dump ==
    /\ pc = "build"
    /\ emitted' = Encode(PyList(forest))
    /\ file' = dumps(PyList(forest))
    /\ pc' = "dumped"
    /\ UNCHANGED <<forest, edits, ret, out, args, obj, json>>

\* A file written by hand instead.
WriteFile ==
    /\ pc = "build" /\ forest = <<>>
    /\ file' \in HandWritten
    /\ pc' = "written"
    /\ UNCHANGED <<forest, emitted, edits, ret, out, args, obj, json>>

\* A comment line is added to the file, at its start or after one of its
\* lines (after a last line that has no newline, it continues that line).
AddComment ==
    /\ pc \in {"dumped", "written"}
    /\ edits < MaxComments
    /\ \E c \in CommentLines, i \in 0..Len(readlines(file)) :
         file' = join(SubSeq(readlines(file), 1, i)) \o c \o join(SubSeq(readlines(file), i + 1, Len(readlines(file))))
    /\ edits' = edits + 1
    /\ UNCHANGED <<pc, forest, emitted, ret, out, args, obj, json>>

\* ret = import_locations_from_file(path)
Import ==
    /\ pc \in {"dumped", "written"}
    /\ ret' = import_locations_from_file(file)
    /\ pc' = "imported"
    /\ UNCHANGED <<forest, emitted, file, edits, out, args, obj, json>>

\* dumps(ret), when the import returned
Redump ==
    /\ pc = "imported" /\ ret.err = ""
    /\ out' = dumps(ret.v)
    /\ pc' = "done"
    /\ UNCHANGED <<forest, emitted, file, edits, ret, args, obj, json>>

Next ==
    \/ NewLocation
    \/ NewArea
    \/ AddSection
    \/ AddMapLocation
    \/ AddSimpleLocation
    \/ Dump
    \/ WriteFile
    \/ Import
    \/ Redump

Spec == Init /\ [][Next]_vars

\* Files written by hand, with comment lines added, and their import.
NextFile ==
    \/ WriteFile
    \/ AddComment
    \/ Import
    \/ Redump

SpecFile == Init /\ [][NextFile]_vars

----------------------------------------------------------------------------
(* Single constructor calls and their projections: a Section built         *)
(* directly or by the importer from one section entry, a MapLocation built *)
(* by Map.location, a Location built by Map.simple_location.               *)

\* The largest raw coordinate; coordinates are the integers and the halves
\* up to it, of either sign.
MaxCoord == 2

Coords == {PyInt(n) : n \in (-MaxCoord)..MaxCoord} \cup {PyFloat(2 * n + 1, 2) : n \in (-MaxCoord)..(MaxCoord - 1)}
Scales == {PyInt(1), PyInt(2), PyFloat(1, 2), PyFloat(3, 2)}
Offsets == {PyInt(0), PyInt(10), PyInt(-1)}
AllMaps == {Map(PyStr("m"), s, o) : s \in Scales, o \in Offsets}
MapLocationKw1 == UpTo(MapLocationKw, 1)

\* The section entry of a file for the keyword arguments kw: a key for every
\* argument given, and with nulls a null for every one that is not.
EntryFields == <<"item_count", "clear_as_group", "chest_unopened_img", "chest_opened_img", "access_rules", "visibility_rules", "hosted_item", "location_id">>
EntryOf(name, kw, nulls) ==
    PyDict(<< <<"name", name>> >> \o SelectSeq([i \in 1..Len(EntryFields) |-> <<EntryFields[i], kw[EntryFields[i]]>>], LAMBDA q : nulls \/ q[2] # None))

\* Section(name, **kw)
NewSection ==
    /\ pc = "build"
    /\ \E kw \in SectionKw :
         /\ args' = [op |-> "Section", kw |-> kw]
         /\ obj' = Section(NameOf(1), kw.clear_as_group, kw.chest_unopened_img, kw.chest_opened_img, kw.item_count, kw.hosted_item, kw.access_rules, kw.visibility_rules, kw.location_id)
    /\ pc' = "built"
    /\ UNCHANGED <<forest, emitted, file, edits, ret, out, json>>

\* import_locations_from_file on a file of one location with one section
\* entry; obj is the Section it built.
ImportSection ==
    /\ pc = "build"
    /\ \E kw \in SectionKw, nulls \in BOOLEAN :
         /\ kw.location_id[1] # "tuple"
         /\ args' = [op |-> "import", kw |-> kw]
         /\ file' = Render(PyList(<<PyDict(<< <<"name", NameOf(1)>>, <<"sections", PyList(<<EntryOf(NameOf(2), kw, nulls)>>)>> >>)>>)) \o <<NL>>
    /\ ret' = import_locations_from_file(file')
    /\ obj' = IF ret'.err = "" THEN Items(Attr(Items(ret'.v)[1]).sections)[1] ELSE None
    /\ pc' = "built"
    /\ UNCHANGED <<forest, emitted, edits, out, json>>

\* map.location(x, y, **kw)
MapLocate ==
    /\ pc = "build"
    /\ \E map \in AllMaps, x \in Coords, y \in Coords, kw \in MapLocationKw1 :
         /\ args' = [op |-> "location", map |-> map, x |-> x, y |-> y]
         /\ obj' = Map_location(map, x, y, kw.size, kw.border_thickness, kw.restrict_visibility_rules, kw.force_invisibility_rules)
    /\ pc' = "built"
    /\ UNCHANGED <<forest, emitted, file, edits, ret, out, json>>

\* map.simple_location(name, x, y, location_id)
SimpleLocate ==
    /\ pc = "build"
    /\ \E map \in AllMaps, x \in Coords, y \in Coords, id \in LocIds :
         /\ args' = [op |-> "simple_location", map |-> map, name |-> NameOf(1), x |-> x, y |-> y, location_id |-> id]
         /\ obj' = Map_simple_location(map, NameOf(1), x, y, id, None, None, None)
    /\ pc' = "built"
    /\ UNCHANGED <<forest, emitted, file, edits, ret, out, json>>

\* The mapping json.dumps writes for obj.
Serialize ==
    /\ pc = "built" /\ obj # None
    /\ json' = Encode(obj)
    /\ pc' = "serialized"
    /\ UNCHANGED <<forest, emitted, file, edits, ret, out, args, obj>>

NextUnit ==
    \/ NewSection
    \/ ImportSection
    \/ MapLocate
    \/ SimpleLocate
    \/ Serialize

SpecUnit == Init /\ [][NextUnit]_vars

----------------------------------------------------------------------------
(* Properties *)

Dumped == pc = "dumped"
Imported == pc = "imported"

\* The objects of a forest, at any depth.
RECURSIVE Within(_)
Within(o) == {o} \cup UNION {Within(Owned(o)[i]) : i \in 1..Len(Owned(o))}
Objects(f) == UNION {Within(f[i]) : i \in 1..Len(f)}
OfClass(f, c) == {o \in Objects(f) : Attr(o).cls = c}

\* Every Area and Location of an object tree with the mapping written for it.
RECURSIVE NodePairs(_, _)
NodePairs(o, j) ==
    {<<o, j>>} \cup
    (IF Attr(o).cls = "Area" /\ Has(j, "children") /\ Len(Items(Get(j, "children"))) = Len(Items(Attr(o).children))
     THEN UNION {NodePairs(Items(Attr(o).children)[i], Items(Get(j, "children"))[i]) : i \in 1..Len(Items(Attr(o).children))}
     ELSE {})
ForestPairs == UNION {NodePairs(forest[i], Items(emitted)[i]) : i \in 1..Len(forest)}

\* Every key of a JSON tree, at any depth.
RECURSIVE AllKeys(_)
AllKeys(j) ==
    CASE j[1] = "dict" -> Keys(j) \cup UNION {AllKeys(j[2][i][2]) : i \in 1..Len(j[2])}
      [] j[1] = "list" -> UNION {AllKeys(j[2][i]) : i \in 1..Len(j[2])}
      [] OTHER -> {}

\* C1 (as claimed): a dumped forest whose maps all have scale 1 and offset 0,
\* imported and dumped again, gives the text of the first dump.
C1_RoundTrip ==
    (pc = "done" /\ emitted # None /\ \A m \in OfClass(forest, "MapLocation") : Attr(Attr(m).map).scale = PyInt(1) /\ Attr(Attr(m).map).offset = PyInt(0))
        => out = file

\* C5: in the mapping written for an Area or a Location, name is present and
\* every optional field left at its default is absent; a Location without
\* sections or map locations has neither key; an Area always has children,
\* the empty list when it has none.
C5_DefaultsAbsent ==
    Dumped => \A q \in ForestPairs :
        LET o == q[1]
            j == q[2]
        IN  /\ Has(j, "name") /\ Get(j, "name") = Attr(o).name
            /\ \A f \in OptFields(o) : Attr(o)[f] \in Defaults => ~Has(j, f)
            /\ Attr(o).cls = "Location" =>
                 /\ Attr(o).sections = PyList(<<>>) => ~Has(j, "sections")
                 /\ Attr(o).map_locations = PyList(<<>>) => ~Has(j, "map_locations")
            /\ Attr(o).cls = "Area" =>
                 /\ Has(j, "children")
                 /\ Attr(o).children = PyList(<<>>) => Get(j, "children") = PyList(<<>>)

C5_Witness ==
    /\ pc = "dumped"
    /\ \E a \in OfClass(forest, "Area") : Attr(a).children = PyList(<<>>) /\ Attr(a).short_name = None
    /\ \E l \in OfClass(forest, "Location") : Attr(l).sections = PyList(<<>>) /\ Attr(l).chest_opened_img = None

\* C6: whatever location_id the Sections of a forest hold, at any depth, the
\* mapping written for the forest has no location_id key anywhere, and dumping
\* leaves every Section of the forest holding the location_id it had.
C6_LocationIdInternal ==
    /\ [](Dumped => "location_id" \notin AllKeys(emitted))
    /\ [][(pc = "build" /\ pc' = "dumped") => OfClass(forest', "Section") = OfClass(forest, "Section") /\ forest' = forest]_vars

\* A dumped forest with a Section below an Area that holds a location_id.
C6_Witness ==
    /\ pc = "dumped"
    /\ \E a \in OfClass(forest, "Area") : \E s \in OfClass(<<a>>, "Section") : Attr(s).location_id # None

\* The JSON array the importer parsed from the file.
Parsed == loads(join(FilterComments(readlines(file))))

\* node is what C7 says the importer builds from descriptor d.
RECURSIVE BuiltFrom(_, _)
BuiltFrom(node, d) ==
    /\ Attr(node).cls = (IF Has(d, "children") THEN "Area" ELSE "Location")
    /\ Attr(node).name = Get(d, "name")
    /\ Has(d, "children") =>
         LET cs == Items(Attr(node).children)
             ds == Items(Get(d, "children"))
         IN  /\ Len(cs) = Len(ds)
             /\ \A i \in 1..Len(ds) : BuiltFrom(cs[i], ds[i])

\* C7: the importer returns one node per top-level descriptor, in input
\* order; at every depth a descriptor with a children key (even an empty
\* list) gives an Area whose children are the nodes of its child descriptors
\* in order, and any other descriptor gives a Location.
C7_AreaIffChildren ==
    (Imported /\ ret.err = "") =>
        LET ds == Items(Parsed.v)
            ns == Items(ret.v)
        IN  /\ Len(ns) = Len(ds)
            /\ \A i \in 1..Len(ns) : BuiltFrom(ns[i], ds[i])

\* An import that returned a Location followed by an Area without children.
C7_Witness ==
    /\ pc = "imported" /\ ret.err = "" /\ Len(Items(ret.v)) = 2
    /\ Attr(Items(ret.v)[1]).cls = "Location" /\ Attr(Items(ret.v)[1]).name = PyStr("A")
    /\ Attr(Items(ret.v)[2]).cls = "Area" /\ Attr(Items(ret.v)[2]).name = PyStr("B")
    /\ Attr(Items(ret.v)[2]).children = PyList(<<>>)
    /\ Has(Items(Parsed.v)[2], "children")

\* Every descriptor the importer visits is an object, and so is every section
\* and map location entry of a Location-shaped one.
RECURSIVE Shaped(_)
Shaped(d) ==
    /\ IsDict(d)
    /\ IF Has(d, "children")
       THEN IsList(Get(d, "children")) /\ \A i \in 1..Len(Items(Get(d, "children"))) : Shaped(Items(Get(d, "children"))[i])
       ELSE \A k \in {"sections", "map_locations"} :
                Has(d, k) => IsList(Get(d, k)) /\ \A i \in 1..Len(Items(Get(d, k))) : IsDict(Items(Get(d, k))[i])

\* A descriptor, a child descriptor at any depth or a section entry of d has
\* no name key.
RECURSIVE Nameless(_)
Nameless(d) ==
    \/ ~Has(d, "name")
    \/ /\ Has(d, "children")
       /\ \E i \in 1..Len(Items(Get(d, "children"))) : Nameless(Items(Get(d, "children"))[i])
    \/ /\ ~Has(d, "children") /\ Has(d, "sections")
       /\ \E i \in 1..Len(Items(Get(d, "sections"))) : ~Has(Items(Get(d, "sections"))[i], "name")

\* C9: when a descriptor of the file (a top-level element, a child at any
\* depth or a section entry) has no name key, the import raises KeyError and
\* returns nothing, whatever well-formed descriptors came before it.
C9_MissingNameRaises ==
    Imported =>
        LET data == Parsed IN
        (/\ data.ok /\ IsList(data.v)
         /\ \A i \in 1..Len(Items(data.v)) : Shaped(Items(data.v)[i])
         /\ \E i \in 1..Len(Items(data.v)) : Nameless(Items(data.v)[i]))
            => ret = Raise("KeyError")

\* An import that raised KeyError after a first, well-formed descriptor.
C9_Witness ==
    /\ pc = "imported" /\ ret = Raise("KeyError")
    /\ Parsed.ok /\ Len(Items(Parsed.v)) = 2
    /\ handle_location_data(Items(Parsed.v)[1]).err = ""
    /\ Nameless(Items(Parsed.v)[2])

\* A line whose first lexemes after leading blanks are two slashes.
CommentLine(l) ==
    \E k \in 1..(Len(l) - 1) :
        /\ l[k] = P("/") /\ l[k + 1] = P("/")
        /\ \A i \in 1..(k - 1) : l[i] \in {P(" "), P("\n")}

\* The text of a file without its comment lines.
WithoutCommentLines(text) == join(SelectSeq(readlines(text), LAMBDA l : ~CommentLine(l)))

\* Some line has a slash outside a string and is no comment line.
PartialComment(text) ==
    \E i \in 1..Len(readlines(text)) :
        /\ ~CommentLine(readlines(text)[i])
        /\ \E k \in 1..Len(readlines(text)[i]) : readlines(text)[i][k] = P("/")

\* C8: importing a file gives what importing it without its comment lines
\* gives (the same forest or the same exception); only whole lines are
\* dropped, so a line with // after other content reaches the JSON parser,
\* which rejects it.
C8_CommentLinesDropped ==
    Imported =>
        /\ ret = import_locations_from_file(WithoutCommentLines(file))
        /\ PartialComment(file) => ret = Raise("JSONDecodeError")

\* An import that returned nodes from a file with an indented comment line
\* between its lines.
C8_Witness ==
    /\ pc = "imported" /\ edits >= 1 /\ ret.err = "" /\ Len(Items(ret.v)) >= 1
    /\ \E i \in 2..Len(readlines(file)) : CommentLine(readlines(file)[i]) /\ readlines(file)[i][1] = P(" ")

\* The Section a single constructor call built, with the item_count and
\* location_id it was given.
UnitSection == IF args.op = "simple_location" THEN Items(Attr(obj).sections)[1] ELSE obj
GivenCount == IF args.op = "simple_location" THEN None ELSE args.kw.item_count
GivenId == IF args.op = "simple_location" THEN args.location_id ELSE args.kw.location_id
SectionBuilt == pc \in {"built", "serialized"} /\ args.op \in {"Section", "import", "simple_location"} /\ obj # None

\* C2: a Section built without an item_count (directly, by
\* Map.simple_location or by the importer) has item_count N when its
\* location_id is a sequence of length N and 1 otherwise; one built with an
\* item_count, 0 included, has exactly that.
C2_ItemCountDerived ==
    SectionBuilt =>
        Attr(UnitSection).item_count =
            (IF GivenCount # None THEN GivenCount
             ELSE IF GivenId[1] \in {"list", "tuple"} THEN PyInt(Len(GivenId[2]))
             ELSE PyInt(1))

\* The importer built a Section from an entry with a two-element location_id
\* and no item_count.
C2_Witness ==
    /\ pc = "built" /\ args.op = "import" /\ obj # None
    /\ args.kw.item_count = None /\ args.kw.location_id = PyList(<<PyInt(1), PyInt(2)>>)
    /\ Attr(obj).item_count = PyInt(2)

\* C3: the mapping of a Section has no item_count key exactly when its
\* item_count is 1 and its hosted_item is truthy; otherwise the key holds the
\* Section's item_count.
C3_ItemCountEmitted ==
    (pc = "serialized" /\ args.op \in {"Section", "import"}) =>
        /\ ~Has(json, "item_count") <=> (Attr(obj).item_count = PyInt(1) /\ Truthy(Attr(obj).hosted_item))
        /\ Has(json, "item_count") => Get(json, "item_count") = Attr(obj).item_count

\* A serialized Section with item_count 1 and a hosted item, and so no key.
C3_Witness ==
    /\ pc = "serialized" /\ args.op = "Section"
    /\ Attr(obj).item_count = PyInt(1) /\ Attr(obj).hosted_item = PyStr("boss")
    /\ ~Has(json, "item_count")

\* Numerator and denominator of a number, and the floor and the truncation
\* toward zero of v * scale.
Num(v) == v[2]
Den(v) == IF v[1] = "int" THEN 1 ELSE v[3]
FloorOf(v, s) == (Num(v) * Num(s)) \div (Den(v) * Den(s))
TruncOf(v, s) == IF Num(v) * Num(s) >= 0 THEN FloorOf(v, s) ELSE -((-(Num(v) * Num(s))) \div (Den(v) * Den(s)))

MapLocationSerialized == pc = "serialized" /\ args.op = "location"

\* C4 (as claimed): serialized x and y are floor(raw * scale) + offset.
C4_Floor ==
    MapLocationSerialized =>
        /\ Get(json, "x") = PyInt(FloorOf(args.x, Attr(args.map).scale) + Num(Attr(args.map).offset))
        /\ Get(json, "y") = PyInt(FloorOf(args.y, Attr(args.map).scale) + Num(Attr(args.map).offset))

\* C4 (amended): serialized x and y are raw * scale truncated toward zero,
\* plus offset: the floor when raw * scale is not negative or is integral,
\* one more than the floor otherwise.
C4_Trunc ==
    MapLocationSerialized =>
        /\ Get(json, "x") = PyInt(TruncOf(args.x, Attr(args.map).scale) + Num(Attr(args.map).offset))
        /\ Get(json, "y") = PyInt(TruncOf(args.y, Attr(args.map).scale) + Num(Attr(args.map).offset))

\* A serialized pin whose raw x times scale is negative and fractional, and
\* whose y differs from its x.
C4_Witness ==
    /\ MapLocationSerialized
    /\ args.x = PyFloat(-3, 2) /\ args.y = PyInt(2) /\ Attr(args.map).scale = PyFloat(3, 2) /\ Attr(args.map).offset = PyInt(10)
    /\ Get(json, "x") = PyInt(8) /\ Get(json, "y") = PyInt(13)

\* C10: Map.simple_location(name, x, y, location_id) returns a Location of
\* that name with exactly one Section, of the same name and holding
\* location_id, and exactly one MapLocation, bound to the Map with raw
\* coordinates (x, y); the Location has no location_id of its own, and the
\* pin is written as the Map's transform of (x, y).
C10_SimpleLocation ==
    (pc \in {"built", "serialized"} /\ args.op = "simple_location") =>
        LET l == Attr(obj) IN
        /\ l.cls = "Location" /\ l.name = args.name
        /\ "location_id" \notin DOMAIN l
        /\ Len(Items(l.sections)) = 1 /\ Len(Items(l.map_locations)) = 1
        /\ Attr(Items(l.sections)[1]).cls = "Section"
        /\ Attr(Items(l.sections)[1]).name = args.name
        /\ Attr(Items(l.sections)[1]).location_id = args.location_id
        /\ Attr(Items(l.map_locations)[1]).cls = "MapLocation"
        /\ Attr(Items(l.map_locations)[1]).map = args.map
        /\ Attr(Items(l.map_locations)[1]).x = args.x
        /\ Attr(Items(l.map_locations)[1]).y = args.y
        /\ pc = "serialized" =>
             /\ Len(Items(Get(json, "map_locations"))) = 1
             /\ Get(Items(Get(json, "map_locations"))[1], "x") = PyInt(TruncOf(args.x, Attr(args.map).scale) + Num(Attr(args.map).offset))
             /\ Get(Items(Get(json, "map_locations"))[1], "y") = PyInt(TruncOf(args.y, Attr(args.map).scale) + Num(Attr(args.map).offset))
             /\ "location_id" \notin AllKeys(json)

\* A serialized simple location on a scaled map, with a location_id.
C10_Witness ==
    /\ pc = "serialized" /\ args.op = "simple_location"
    /\ args.location_id = PyInt(5) /\ Attr(args.map).scale = PyInt(2) /\ Attr(args.map).offset = PyInt(10)
    /\ args.x = PyInt(1) /\ args.y = PyInt(2)
    /\ Get(Items(Get(json, "map_locations"))[1], "x") = PyInt(12)
    /\ Attr(Items(Attr(obj).sections)[1]).location_id = PyInt(5)

\* Every node the importer built with the descriptor it was built from.
RECURSIVE BuiltPairs(_, _)
BuiltPairs(node, d) ==
    {<<node, d>>} \cup
    (IF Has(d, "children")
     THEN UNION {BuiltPairs(Items(Attr(node).children)[i], Items(Get(d, "children"))[i]) : i \in 1..Len(Items(Get(d, "children")))}
     ELSE {})
ImportPairs == UNION {BuiltPairs(Items(ret.v)[i], Items(Parsed.v)[i]) : i \in 1..Len(Items(ret.v))}

\* C11 as stated: for every descriptor the importer processed, Area-shaped or
\* Location-shaped, a descriptor with an access_rules key gives a node whose
\* access_rules is the value of that key, and a descriptor without one gives
\* a node whose access_rules is the empty list.
C11_KeyOverwrites ==
    (Imported /\ ret.err = "") => \A q \in ImportPairs :
        Attr(q[1]).access_rules =
            (IF Has(q[2], "access_rules") THEN Get(q[2], "access_rules") ELSE PyList(<<>>))

\* C11: for every descriptor the importer processed, Area-shaped or
\* Location-shaped, a descriptor whose access_rules value is truthy gives a
\* node whose access_rules is that value; a descriptor without the key, or
\* with a falsy value (null, false, the empty list), gives a node whose
\* access_rules is the empty list.
C11_TruthyOverwrites ==
    (Imported /\ ret.err = "") => \A q \in ImportPairs :
        Attr(q[1]).access_rules =
            (IF Truthy(Get(q[2], "access_rules")) THEN Get(q[2], "access_rules") ELSE PyList(<<>>))

\* An import of a Location descriptor whose access_rules is null, built with
\* the empty list, followed by an Area descriptor whose access_rules is a
\* list of one rule, built with that list.
C11_Witness ==
    /\ pc = "imported" /\ ret.err = "" /\ Len(Items(ret.v)) = 2
    /\ Has(Items(Parsed.v)[1], "access_rules") /\ Get(Items(Parsed.v)[1], "access_rules") = None
    /\ Attr(Items(ret.v)[1]).cls = "Location" /\ Attr(Items(ret.v)[1]).access_rules = PyList(<<>>)
    /\ Attr(Items(ret.v)[2]).cls = "Area" /\ Attr(Items(ret.v)[2]).access_rules = PyList(<<PyStr("r")>>)

====
